---- MODULE Spec2Model ----
(***************************************************************************)
(* A model of the Druid client of src/src/client.rs: DruidClient::new,     *)
(* DruidClient::url, DruidClient::query_str and DruidClient::query, with   *)
(* serde_json's parsing and the derived Deserialize of QueryResult<T> and  *)
(* of the row type WikiPage.                                               *)
(*                                                                         *)
(* A raw text (a request body, a response body) is a sequence of lexical   *)
(* tokens; the lexer (white space, string escapes, number syntax) is the   *)
(* one part of serde_json that is not modelled.                            *)
(***************************************************************************)
EXTENDS Integers, Sequences, FiniteSets, TLC

(***************************************************************************)
(* Tokens and raw texts                                                    *)
(***************************************************************************)
Tok(k, s, n) == [k |-> k, s |-> s, n |-> n]
P(c) == Tok("punct", c, 0)
S(s) == Tok("str", s, 0)
N(n) == Tok("num", "", n)
Null == Tok("null", "", 0)
Bad(w) == Tok("bad", w, 0)

(***************************************************************************)
(* JSON syntax trees.  An object keeps its members in text order, with     *)
(* duplicates, as a sequence of [k, v] pairs.                              *)
(***************************************************************************)
JNull == [t |-> "null"]
JNum(n) == [t |-> "num", n |-> n]
JStr(s) == [t |-> "str", s |-> s]
JArr(a) == [t |-> "arr", a |-> a]
JObj(o) == [t |-> "obj", o |-> o]

Fail == [ok |-> FALSE]
At(v, i) == [ok |-> TRUE, v |-> v, next |-> i]

RECURSIVE ParseValue(_, _), ParseElems(_, _, _), ParseMembers(_, _, _)

\* The value starting at token i of text x.
ParseValue(x, i) ==
    IF i > Len(x) THEN Fail
    ELSE LET k == x[i].k IN
         CASE k = "null" -> At(JNull, i + 1)
           [] k = "num" -> At(JNum(x[i].n), i + 1)
           [] k = "str" -> At(JStr(x[i].s), i + 1)
           [] k = "punct" /\ x[i].s = "[" ->
                IF i + 1 <= Len(x) /\ x[i + 1] = P("]")
                THEN At(JArr(<<>>), i + 2)
                ELSE ParseElems(x, i + 1, <<>>)
           [] k = "punct" /\ x[i].s = "{" ->
                IF i + 1 <= Len(x) /\ x[i + 1] = P("}")
                THEN At(JObj(<<>>), i + 2)
                ELSE ParseMembers(x, i + 1, <<>>)
           [] OTHER -> Fail

\* The elements of a non-empty array, from token i, after the elements acc.
ParseElems(x, i, acc) ==
    LET e == ParseValue(x, i) IN
    IF ~e.ok \/ e.next > Len(x) THEN Fail
    ELSE IF x[e.next] = P(",") THEN ParseElems(x, e.next + 1, Append(acc, e.v))
    ELSE IF x[e.next] = P("]") THEN At(JArr(Append(acc, e.v)), e.next + 1)
    ELSE Fail

\* The members of a non-empty object, from token i, after the members acc.
ParseMembers(x, i, acc) ==
    IF i + 1 > Len(x) \/ x[i].k # "str" \/ x[i + 1] # P(":") THEN Fail
    ELSE LET e == ParseValue(x, i + 2) IN
         IF ~e.ok \/ e.next > Len(x) THEN Fail
         ELSE LET m == Append(acc, [k |-> x[i].s, v |-> e.v]) IN
              IF x[e.next] = P(",") THEN ParseMembers(x, e.next + 1, m)
              ELSE IF x[e.next] = P("}") THEN At(JObj(m), e.next + 1)
              ELSE Fail

\* serde_json::from_str::<Value>: one value, and nothing after it.
from_str_Value(x) ==
    LET e == ParseValue(x, 1) IN
    IF e.ok /\ e.next = Len(x) + 1 THEN [ok |-> TRUE, v |-> e.v] ELSE Fail

\* Value_get with the fault of treating a null member as absent.
Value_get_non_null(v, key) ==
    IF v.t = "obj" /\ \E i \in 1..Len(v.o) : v.o[i].k = key /\ v.o[i].v.t # "null"
    THEN [some |-> TRUE] ELSE [some |-> FALSE]

\* Value_get with the fault of also looking inside the elements of an array.
Value_get_deep(v, key) ==
    IF \/ v.t = "obj" /\ \E i \in 1..Len(v.o) : v.o[i].k = key
       \/ v.t = "arr" /\ \E j \in 1..Len(v.a) :
            v.a[j].t = "obj" /\ \E i \in 1..Len(v.a[j].o) : v.a[j].o[i].k = key
    THEN [some |-> TRUE] ELSE [some |-> FALSE]

\* Value::get("error"): the member of that name of an object; None for every
\* value that is not an object.
Value_get(v, key) ==
    IF v.t = "obj" /\ \E i \in 1..Len(v.o) : v.o[i].k = key
    THEN [some |-> TRUE] ELSE [some |-> FALSE]

(***************************************************************************)
(* Typed deserialization (serde's derived Deserialize).  A struct is read  *)
(* from a JSON object (unknown members skipped, a repeated known member    *)
(* and a missing non-Option member are errors) or from a JSON array of     *)
(* exactly its fields, in order.                                           *)
(***************************************************************************)
Count(o, key) == Cardinality({i \in 1..Len(o) : o[i].k = key})
Field(o, key) == o[CHOOSE i \in 1..Len(o) : o[i].k = key].v

Ok(v) == [ok |-> TRUE, v |-> v]
None == [some |-> FALSE, v |-> ""]
Some(s) == [some |-> TRUE, v |-> s]

de_String(v) == IF v.t = "str" THEN Ok(v.s) ELSE Fail
\* de_Option_String with the fault of never reading the value.
de_Option_String_skipped(v) == Ok(None)

de_Option_String(v) ==
    IF v.t = "null" THEN Ok(None)
    ELSE IF v.t = "str" THEN Ok(Some(v.s))
    ELSE Fail
de_usize(v) == IF v.t = "num" /\ v.n >= 0 THEN Ok(v.n) ELSE Fail

\* struct WikiPage { page: String, user: Option<String>, count: usize }
de_WikiPage(v) ==
    IF v.t = "obj" THEN
        IF Count(v.o, "page") # 1 \/ Count(v.o, "user") > 1 \/ Count(v.o, "count") # 1
        THEN Fail
        ELSE LET page == de_String(Field(v.o, "page"))
                 user == IF Count(v.o, "user") = 0 THEN Ok(None)
                         ELSE de_Option_String(Field(v.o, "user"))
                 count == de_usize(Field(v.o, "count"))
             IN IF page.ok /\ user.ok /\ count.ok
                THEN Ok([page |-> page.v, user |-> user.v, count |-> count.v])
                ELSE Fail
    ELSE IF v.t = "arr" /\ Len(v.a) = 3 THEN
        LET page == de_String(v.a[1])
            user == de_Option_String(v.a[2])
            count == de_usize(v.a[3])
        IN IF page.ok /\ user.ok /\ count.ok
           THEN Ok([page |-> page.v, user |-> user.v, count |-> count.v])
           ELSE Fail
    ELSE Fail

\* Vec<T> for the row type T = WikiPage
de_Vec_T(v) ==
    IF v.t = "arr" /\ \A i \in 1..Len(v.a) : de_WikiPage(v.a[i]).ok
    THEN Ok([i \in 1..Len(v.a) |-> de_WikiPage(v.a[i]).v])
    ELSE Fail

\* struct QueryResult<T> { result: Vec<T> }
de_QueryResult(v) ==
    IF v.t = "obj" THEN
        IF Count(v.o, "result") # 1 THEN Fail
        ELSE LET r == de_Vec_T(Field(v.o, "result")) IN
             IF r.ok THEN Ok([result |-> r.v]) ELSE Fail
    ELSE IF v.t = "arr" /\ Len(v.a) = 1 THEN
        LET r == de_Vec_T(v.a[1]) IN
        IF r.ok THEN Ok([result |-> r.v]) ELSE Fail
    ELSE Fail

de_Vec_QueryResult(v) ==
    IF v.t = "arr" /\ \A i \in 1..Len(v.a) : de_QueryResult(v.a[i]).ok
    THEN Ok([i \in 1..Len(v.a) |-> de_QueryResult(v.a[i]).v])
    ELSE Fail

\* serde_json::from_str::<Vec<QueryResult<T>>>
from_str_Rows(x) ==
    LET e == from_str_Value(x) IN
    IF e.ok THEN de_Vec_QueryResult(e.v) ELSE Fail

(***************************************************************************)
(* Queries and their serialization.  The Query type and its Serialize are  *)
(* not part of client.rs; a query is its discriminator and whether its     *)
(* Serialize reports an error.                                             *)
(***************************************************************************)
Query(queryType, serializable) ==
    [queryType |-> queryType, serializable |-> serializable]
TopN == Query("topN", TRUE)
GroupBy == Query("groupBy", TRUE)
Unserializable == Query("scan", FALSE)
Queries == {TopN, GroupBy, Unserializable}

\* serde_json::to_string(query)
to_string(q) ==
    IF q.serializable
    THEN Ok(<<P("{"), S("queryType"), P(":"), S(q.queryType), P("}")>>)
    ELSE Fail

(***************************************************************************)
(* The client                                                              *)
(***************************************************************************)
NodeLists == {<<"ololo">>, <<"localhost:8888", "druid-b:8082">>}

\* DruidClient::new
new(nodes) == [http_client |-> "Client", nodes |-> nodes]

\* DruidClient::url
url(self) == [scheme |-> "http", authority |-> "localhost:8888",
              path |-> "/druid/v2/?pretty"]

\* enum DruidClientError
DruidClientError ==
    {"HttpConnection", "Redaction", "InvalidHeader", "ParsingError",
     "ServerError", "Unknown"}

Pending == [kind |-> "Pending"]
Rows(v) == [kind |-> "Ok", rows |-> v]
HttpConnection == [kind |-> "HttpConnection"]
\* ParsingError with the fault of mapping the cause to the Unknown variant.
ParsingError_unknown == [kind |-> "Unknown"]
ParsingError == [kind |-> "ParsingError"]
ServerError(response) == [kind |-> "ServerError", response |-> response]

Unset == [unset |-> TRUE]
NoText == [some |-> FALSE, v |-> <<>>]
Received(x) == [some |-> TRUE, v |-> x]

\* The number of calls made on the one client handle.
NumCalls == 2
Calls == 1..NumCalls

VARIABLES
    client,        \* the DruidClient the calls share
    pc,            \* pc[c]: where call c of DruidClient::query stands
    query,         \* query[c]: the call's argument
    request,       \* request[c]: query_str's `request`
    wire,          \* wire[c]: the HTTP requests the call has sent, in order
    response_str,  \* response_str[c]: query's `response_str`
    json_value,    \* json_value[c]: query's `json_value`
    ret,           \* ret[c]: what the call returned
    steps,         \* steps[c]: the steps the call has performed, in order
    builder,       \* the join builder under construction
    built          \* what the builder's build() returned

clientVars ==
    <<client, pc, query, request, wire, response_str, json_value, ret, steps>>
builderVars == <<builder, built>>
vars == <<clientVars, builderVars>>

InitCalls ==
    /\ pc = [c \in Calls |-> "idle"]
    /\ query = [c \in Calls |-> Unset]
    /\ request = [c \in Calls |-> Unset]
    /\ wire = [c \in Calls |-> <<>>]
    /\ response_str = [c \in Calls |-> NoText]
    /\ json_value = [c \in Calls |-> Unset]
    /\ ret = [c \in Calls |-> Pending]
    /\ steps = [c \in Calls |-> <<>>]

Init ==
    /\ \E nodes \in NodeLists : client = new(nodes)
    /\ InitCalls
    /\ builder = Unset
    /\ built = Unset

Return(c, r) ==
    /\ ret' = [ret EXCEPT ![c] = r]
    /\ pc' = [pc EXCEPT ![c] = "done"]

Goto(c, l) ==
    /\ pc' = [pc EXCEPT ![c] = l]
    /\ UNCHANGED ret

Step(c, s) == steps' = [steps EXCEPT ![c] = Append(@, s)]

\* query_str, lines 93-94: the query is serialized.
Serialize(c, q) ==
    /\ pc[c] = "idle"
    /\ query' = [query EXCEPT ![c] = q]
    /\ request' = [request EXCEPT ![c] = to_string(q)]
    /\ Step(c, "serialize")
    /\ Goto(c, "post")
    /\ UNCHANGED <<client, wire, response_str, json_value, builderVars>>

\* RequestFailed with the fault of posting an empty body before returning.
RequestFailed_sends(c) ==
    /\ Return(c, ParsingError)
    /\ wire' = [wire EXCEPT ![c] =
            Append(@, [url |-> url(client), body |-> <<>>,
                       content_type |-> "application/json"])]
    /\ Step(c, "send")

\* query_str, line 99: `request?` on a failed serialization.
RequestFailed(c) ==
    /\ Return(c, ParsingError)
    /\ UNCHANGED <<wire, steps>>

\* Send with the fault of sending once more after a first failed send.
Send_retries(c, sent) ==
    /\ wire' = [wire EXCEPT ![c] =
            Append(@, [url |-> url(client), body |-> request[c].v,
                       content_type |-> "application/json"])]
    /\ Step(c, "send")
    /\ IF sent THEN Goto(c, "text")
       ELSE IF Len(wire[c]) = 0 THEN Goto(c, "post")
       ELSE Return(c, HttpConnection)

\* query_str, lines 96-103: the POST to url() is sent and awaited.
Send(c, sent) ==
    /\ wire' = [wire EXCEPT ![c] =
            Append(@, [url |-> url(client), body |-> request[c].v,
                       content_type |-> "application/json"])]
    /\ Step(c, "send")
    /\ IF sent THEN Goto(c, "text") ELSE Return(c, HttpConnection)

\* query_str, lines 96-103
Post(c, sent) ==
    /\ pc[c] = "post"
    /\ IF request[c].ok THEN Send(c, sent) ELSE RequestFailed(c)
    /\ UNCHANGED <<client, query, request, response_str, json_value, builderVars>>

\* query_str, lines 104-107, and query, line 114: the body is read and awaited;
\* the transport delivers one of `bodies`.
Text(c, bodies) ==
    /\ pc[c] = "text"
    /\ Step(c, "text")
    /\ \E body \in bodies :
        IF body.ok
        THEN /\ response_str' = [response_str EXCEPT ![c] = Received(body.v)]
             /\ Goto(c, "parse")
        ELSE /\ Return(c, HttpConnection)
             /\ UNCHANGED response_str
    /\ UNCHANGED <<client, query, request, wire, json_value, builderVars>>

\* Parse with the fault of reporting malformed text as a ServerError.
Parse_server_error(c) ==
    /\ pc[c] = "parse"
    /\ Step(c, "parse")
    /\ LET v == from_str_Value(response_str[c].v) IN
       /\ json_value' = [json_value EXCEPT ![c] = v]
       /\ IF v.ok THEN Goto(c, "classify")
          ELSE Return(c, ServerError(response_str[c].v))
    /\ UNCHANGED <<client, query, request, wire, response_str, builderVars>>

\* query, lines 115-117: the text is parsed as a JSON value; `json_value?`.
Parse(c) ==
    /\ pc[c] = "parse"
    /\ Step(c, "parse")
    /\ LET v == from_str_Value(response_str[c].v) IN
       /\ json_value' = [json_value EXCEPT ![c] = v]
       /\ IF v.ok THEN Goto(c, "classify") ELSE Return(c, ParsingError)
    /\ UNCHANGED <<client, query, request, wire, response_str, builderVars>>

\* query, lines 117-121: a top-level "error" member makes a ServerError.
Classify(c) ==
    /\ pc[c] = "classify"
    /\ Step(c, "classify")
    /\ IF Value_get(json_value[c].v, "error").some
       THEN Return(c, ServerError(response_str[c].v))
       ELSE Goto(c, "deserialize")
    /\ UNCHANGED <<client, query, request, wire, response_str, json_value, builderVars>>

\* Deserialize with the fault of one response buffer shared by the calls.
Deserialize_shared(c) ==
    /\ pc[c] = "deserialize"
    /\ Step(c, "deserialize")
    /\ LET x == IF response_str[1].some THEN response_str[1].v
                ELSE response_str[c].v
           r == from_str_Rows(x)
       IN Return(c, IF r.ok THEN Rows(r.v) ELSE ParsingError)
    /\ UNCHANGED <<client, query, request, wire, response_str, json_value, builderVars>>

\* query, lines 122-125: the text is deserialized into Vec<QueryResult<T>>.
Deserialize(c) ==
    /\ pc[c] = "deserialize"
    /\ Step(c, "deserialize")
    /\ LET r == from_str_Rows(response_str[c].v) IN
       Return(c, IF r.ok THEN Rows(r.v) ELSE ParsingError)
    /\ UNCHANGED <<client, query, request, wire, response_str, json_value, builderVars>>

(***************************************************************************)
(* Response texts                                                          *)
(***************************************************************************)
Pages == {"A", "B"}
Users == {"u", "v"}
Counts == {0, 3}

\* {"page":page,"user":user,"count":count}
RowObject(page, user, count) ==
    <<P("{"), S("page"), P(":"), S(page), P(","), S("user"), P(":"), S(user),
      P(","), S("count"), P(":"), N(count), P("}")>>
\* [row]
RowArray(row) == <<P("[")>> \o row \o <<P("]")>>
\* [{"result":[row]}]
Envelope(row) ==
    <<P("["), P("{"), S("result"), P(":"), P("[")>> \o row \o
    <<P("]"), P("}"), P("]")>>

TextErrorX == <<P("{"), S("error"), P(":"), S("x"), P("}")>>
TextRowArray == RowArray(RowObject("A", "u", 3))
TextEnvelope == Envelope(RowObject("A", "u", 3))
TextNotJson == <<Bad("not"), Bad("json")>>
TextInnerError == <<P("["), P("{"), S("error"), P(":"), S("x"), P("}"), P("]")>>

\* The response texts of the concurrent calls.
WireTexts ==
    {TextErrorX, TextRowArray, TextEnvelope, TextNotJson, TextInnerError}

Bodies(texts) == {Fail} \cup {Ok(t) : t \in texts}

Next ==
    \E c \in Calls :
        \/ \E q \in Queries : Serialize(c, q)
        \/ \E sent \in BOOLEAN : Post(c, sent)
        \/ Text(c, Bodies(WireTexts))
        \/ Parse(c)
        \/ Classify(c)
        \/ Deserialize(c)

Spec == Init /\ [][Next]_vars

(***************************************************************************)
(* One call in isolation, under every transport behaviour: the response    *)
(* text is any text of at most MaxTextLen tokens over Alphabet, or one of  *)
(* the texts named below.                                                  *)
(***************************************************************************)
MaxTextLen == 5
Alphabet ==
    {P("{"), P("}"), P("["), P("]"), P(":"), P(","), S("error"), N(3)}
TokenTexts == UNION {[1..n -> Alphabet] : n \in 0..MaxTextLen}

TextErrorNull == <<P("{"), S("error"), P(":"), Null, P("}")>>
TextScalar == <<S("ok")>>
TextObject == <<P("{"), S("status"), P(":"), S("ok"), P("}")>>
TextTruncated == <<P("{"), S("error"), P(":"), S("x")>>
TextTrailing == TextErrorX \o <<P("}")>>
TextNestedError ==
    <<P("{"), S("x"), P(":"), P("{"), S("error"), P(":"), S("y"), P("}"), P("}")>>
TextErrorAndResult ==
    <<P("{"), S("result"), P(":"), P("["), P("]"), P(","), S("error"), P(":"),
      S("x"), P("}")>>
TextInnerErrorAndResult ==
    <<P("["), P("{"), S("error"), P(":"), S("x"), P(","), S("result"), P(":"),
      P("["), P("]"), P("}"), P("]")>>
TextTimestamp ==
    <<P("["), P("{"), S("timestamp"), P(":"), S("t"), P(","), S("result"), P(":"),
      P("[")>> \o RowObject("A", "u", 3) \o <<P("]"), P("}"), P("]")>>
TextTwiceResult ==
    <<P("["), P("{"), S("result"), P(":"), P("["), P("]"), P(","), S("result"),
      P(":"), P("["), P("]"), P("}"), P("]")>>
TextPositional ==
    <<P("["), P("["), P("["), P("["), S("A"), P(","), Null, P(","), N(3), P("]"),
      P("]"), P("]"), P("]")>>
TextNegativeCount == Envelope(RowObject("A", "u", -1))
TextNoUser ==
    Envelope(<<P("{"), S("page"), P(":"), S("A"), P(","), S("count"), P(":"),
               N(0), P("}")>>)

RowObjects ==
    {RowObject(page, user, count) :
        page \in Pages, user \in Users, count \in Counts}

NamedTexts ==
    WireTexts \cup
    {TextErrorNull, TextScalar, TextObject, TextTruncated, TextTrailing,
     TextNestedError, TextErrorAndResult, TextInnerErrorAndResult,
     TextTimestamp, TextTwiceResult, TextPositional, TextNegativeCount,
     TextNoUser} \cup
    {RowArray(row) : row \in RowObjects} \cup
    {Envelope(row) : row \in RowObjects}

CallTexts == NamedTexts \cup TokenTexts

InitCall ==
    /\ client = new(<<"ololo">>)
    /\ InitCalls
    /\ builder = Unset
    /\ built = Unset

NextCall ==
    \/ \E q \in Queries : Serialize(1, q)
    \/ \E sent \in BOOLEAN : Post(1, sent)
    \/ Text(1, Bodies(CallTexts))
    \/ Parse(1)
    \/ Classify(1)
    \/ Deserialize(1)

SpecCall == InitCall /\ [][NextCall]_vars

(***************************************************************************)
(* The join builder: DataSource::join(join_type), .left(source),           *)
(* .right(source, prefix), .condition(expression), .build().               *)
(***************************************************************************)
JoinTypes == {"INNER", "LEFT"}
table(name) == [type |-> "table", name |-> name]
query_source(q) == [type |-> "query", name |-> q]
DataSources == {table("wikipedia"), table("countries"), query_source("scan")}
Prefixes == {"c.", "r."}
Conditions == {"countryName == \"c.Name\"", "x == \"r.x\""}

NoSource == [some |-> FALSE, v |-> table("")]

\* DataSource::join
join(join_type) ==
    [join_type |-> join_type, left |-> NoSource, right |-> NoSource,
     right_prefix |-> None, condition |-> None]

BuilderError(field) == [ok |-> FALSE, field |-> field]

\* build with the fault of not requiring the condition.
build_unchecked(b) ==
    IF ~b.left.some THEN BuilderError("left")
    ELSE IF ~b.right.some THEN BuilderError("right")
    ELSE Ok([type |-> "join", left |-> b.left.v, right |-> b.right.v,
             joinType |-> b.join_type, rightPrefix |-> b.right_prefix.v,
             condition |-> b.condition.v])

\* JoinBuilder::build
build(b) ==
    IF ~b.left.some THEN BuilderError("left")
    ELSE IF ~b.right.some THEN BuilderError("right")
    ELSE IF ~b.condition.some THEN BuilderError("condition")
    ELSE Ok([type |-> "join", left |-> b.left.v, right |-> b.right.v,
             joinType |-> b.join_type, rightPrefix |-> b.right_prefix.v,
             condition |-> b.condition.v])

InitJoin ==
    /\ client = new(<<"ololo">>)
    /\ InitCalls
    /\ \E join_type \in JoinTypes : builder = join(join_type)
    /\ built = Unset

Building == built = Unset

Left(source) ==
    /\ Building
    /\ builder' = [builder EXCEPT !.left = [some |-> TRUE, v |-> source]]
    /\ UNCHANGED <<clientVars, built>>

Right(source, prefix) ==
    /\ Building
    /\ builder' = [builder EXCEPT !.right = [some |-> TRUE, v |-> source],
                                  !.right_prefix = Some(prefix)]
    /\ UNCHANGED <<clientVars, built>>

Condition(expression) ==
    /\ Building
    /\ builder' = [builder EXCEPT !.condition = Some(expression)]
    /\ UNCHANGED <<clientVars, built>>

Build ==
    /\ Building
    /\ built' = build(builder)
    /\ UNCHANGED <<clientVars, builder>>

NextJoin ==
    \/ \E source \in DataSources : Left(source)
    \/ \E source \in DataSources, prefix \in Prefixes : Right(source, prefix)
    \/ \E expression \in Conditions : Condition(expression)
    \/ Build

SpecJoin == InitJoin /\ [][NextJoin]_vars

(***************************************************************************)
(* Properties                                                              *)
(***************************************************************************)
Done(c) == pc[c] = "done"
Performed(c, s) == \E i \in 1..Len(steps[c]) : steps[c][i] = s
Range(f) == {f[i] : i \in DOMAIN f}

WellFormed(x) == from_str_Value(x).ok

\* The member names of the text's root value, when it is an object.
TopLevelKeys(x) ==
    LET e == from_str_Value(x) IN
    IF e.ok /\ e.v.t = "obj" THEN {e.v.o[i].k : i \in 1..Len(e.v.o)} ELSE {}

\* The rows of one envelope holding one row.
OneRow(page, user, count) ==
    <<[result |-> <<[page |-> page, user |-> Some(user), count |-> count]>>]>>

\* The expected shape, structs as JSON objects: an array of envelope objects
\* whose "result" is an array of row objects.
IsRowObject(v) ==
    /\ v.t = "obj"
    /\ \E i \in 1..Len(v.o) : v.o[i].k = "page" /\ v.o[i].v.t = "str"
    /\ \E i \in 1..Len(v.o) :
        v.o[i].k = "count" /\ v.o[i].v.t = "num" /\ v.o[i].v.n >= 0
    /\ \A i \in 1..Len(v.o) : v.o[i].k = "user" => v.o[i].v.t \in {"null", "str"}
IsRowTuple(v) ==
    /\ v.t = "arr"
    /\ Len(v.a) = 3
    /\ v.a[1].t = "str"
    /\ v.a[2].t \in {"null", "str"}
    /\ v.a[3].t = "num" /\ v.a[3].n >= 0
IsEnvelopeObject(v, IsRow(_)) ==
    /\ v.t = "obj"
    /\ \E i \in 1..Len(v.o) :
        /\ v.o[i].k = "result"
        /\ v.o[i].v.t = "arr"
        /\ \A j \in 1..Len(v.o[i].v.a) : IsRow(v.o[i].v.a[j])
IsEnvelopeTuple(v, IsRow(_)) ==
    /\ v.t = "arr"
    /\ Len(v.a) = 1
    /\ v.a[1].t = "arr"
    /\ \A j \in 1..Len(v.a[1].a) : IsRow(v.a[1].a[j])
ObjectShape(v) ==
    /\ v.t = "arr"
    /\ \A i \in 1..Len(v.a) : IsEnvelopeObject(v.a[i], IsRowObject)
\* The same, a struct being also readable from the array of its fields in order.
IsRowEither(v) == IsRowObject(v) \/ IsRowTuple(v)
SerdeShape(v) ==
    /\ v.t = "arr"
    /\ \A i \in 1..Len(v.a) :
        \/ IsEnvelopeObject(v.a[i], IsRowEither)
        \/ IsEnvelopeTuple(v.a[i], IsRowEither)

\* The decoder's contract, as a function of the response text alone.
Decoded(x) ==
    IF ~WellFormed(x) THEN [kind |-> "ParsingError"]
    ELSE IF "error" \in TopLevelKeys(x) THEN [kind |-> "ServerError", response |-> x]
    ELSE IF from_str_Rows(x).ok THEN [kind |-> "Ok", rows |-> from_str_Rows(x).v]
    ELSE [kind |-> "ParsingError"]

\* C1: a call whose response text parses as JSON with a top-level "error" key
\* returns ServerError carrying that text verbatim, and never deserializes rows.
C1_ServerErrorVerbatim ==
    \A c \in Calls :
        (Done(c) /\ response_str[c].some /\ "error" \in TopLevelKeys(response_str[c].v))
        => /\ ret[c] = [kind |-> "ServerError", response |-> response_str[c].v]
           /\ ~Performed(c, "deserialize")

C1_Witness ==
    \E c \in Calls :
        /\ Done(c)
        /\ response_str[c] = Received(TextErrorNull)
        /\ ret[c] = [kind |-> "ServerError", response |-> TextErrorNull]

C3_MalformedIsParsingError ==
    \A c \in Calls :
        (Done(c) /\ response_str[c].some /\ ~WellFormed(response_str[c].v))
        => ret[c] = [kind |-> "ParsingError"]

C3_Witness ==
    \E c \in Calls :
        /\ Done(c)
        /\ response_str[c] = Received(TextNotJson)
        /\ ret[c].kind = "ParsingError"

\* C4: a call has returned exactly when it is done, and what it returned is
\* either rows and no error, or one of ServerError, ParsingError and
\* HttpConnection and no rows; never Redaction, InvalidHeader or Unknown.
C4_FourOutcomes ==
    \A c \in Calls :
        /\ Done(c) <=> ret[c] # Pending
        /\ Done(c) =>
            \/ ret[c].kind = "Ok" /\ DOMAIN ret[c] = {"kind", "rows"}
            \/ /\ ret[c].kind \in
                    DruidClientError \ {"Redaction", "InvalidHeader", "Unknown"}
               /\ "rows" \notin DOMAIN ret[c]

C4_Witness ==
    \E c \in Calls :
        /\ Done(c)
        /\ ret[c].kind = "HttpConnection"
        /\ steps[c] = <<"serialize", "send", "text">>

\* C5: a call sends at most one request, and a transport failure or a server
\* error envelope is the call's last step.
C5_NoRetry ==
    \A c \in Calls :
        /\ Len(wire[c]) <= 1
        /\ Cardinality({i \in 1..Len(steps[c]) : steps[c][i] = "send"}) <= 1
        /\ (Done(c) /\ ret[c].kind = "HttpConnection")
            => steps[c] \in {<<"serialize", "send">>, <<"serialize", "send", "text">>}
        /\ (Done(c) /\ ret[c].kind = "ServerError")
            => steps[c] = <<"serialize", "send", "text", "parse", "classify">>

C5_Witness ==
    \E c \in Calls :
        /\ Done(c)
        /\ ret[c].kind = "HttpConnection"
        /\ steps[c] = <<"serialize", "send">>
        /\ Len(wire[c]) = 1

\* C6: build() returns a Join exactly when left, right and condition were all
\* supplied, assembled from them; otherwise it fails naming a part that is
\* missing, which is "condition" when only left and right were supplied.
C6_BuildNeedsAllParts ==
    built # Unset =>
        /\ built.ok <=> (builder.left.some /\ builder.right.some /\ builder.condition.some)
        /\ built.ok =>
            built.v = [type |-> "join", left |-> builder.left.v,
                       right |-> builder.right.v, joinType |-> builder.join_type,
                       rightPrefix |-> builder.right_prefix.v,
                       condition |-> builder.condition.v]
        /\ ~built.ok =>
            /\ DOMAIN built = {"ok", "field"}
            /\ \/ built.field = "left" /\ ~builder.left.some
               \/ built.field = "right" /\ ~builder.right.some
               \/ built.field = "condition" /\ ~builder.condition.some
        /\ (builder.left.some /\ builder.right.some /\ ~builder.condition.some)
            => built = [ok |-> FALSE, field |-> "condition"]

C6_Witness ==
    /\ built = [ok |-> FALSE, field |-> "condition"]
    /\ builder.left.some
    /\ builder.right.some

\* C7: every request of the client addresses one and the same endpoint, and
\* that endpoint is one of the node addresses given to DruidClient::new.
C7_EndpointFromNodes ==
    /\ \A c, d \in Calls : \A i \in 1..Len(wire[c]), j \in 1..Len(wire[d]) :
            wire[c][i].url = wire[d][j].url
    /\ \A c \in Calls : \A i \in 1..Len(wire[c]) :
            wire[c][i].url.authority \in Range(client.nodes)

CallState(c) ==
    <<pc[c], query[c], request[c], wire[c], response_str[c], json_value[c],
      ret[c], steps[c]>>

\* C8: under every interleaving of the calls, every step leaves the client as
\* it was and changes the state of at most one call, and a call that received a
\* response text returns what the decoder's contract gives for that text alone.
C8_CallsIndependent ==
    /\ [](\A c \in Calls :
            (Done(c) /\ response_str[c].some) => ret[c] = Decoded(response_str[c].v))
    /\ [][/\ client' = client
          /\ \E c \in Calls : \A d \in Calls \ {c} : CallState(d)' = CallState(d)]_vars

\* A later call has returned rows while an earlier call of the same query is
\* still waiting for its response.
C8_Witness ==
    \E c, d \in Calls :
        /\ c < d
        /\ query[c] = query[d]
        /\ pc[c] = "text"
        /\ Done(d)
        /\ ret[d].kind = "Ok"

\* C9, as claimed: a well-formed response text with no top-level "error" key
\* that is not an array of envelope objects over row objects gives ParsingError.
C9_ObjectShapeOrParsingError ==
    \A c \in Calls :
        (/\ Done(c) /\ response_str[c].some
         /\ WellFormed(response_str[c].v)
         /\ "error" \notin TopLevelKeys(response_str[c].v)
         /\ ~ObjectShape(from_str_Value(response_str[c].v).v))
        => ret[c] = [kind |-> "ParsingError"]

\* C9, amended: a well-formed response text with no top-level "error" key that
\* is not an array of envelopes over rows, an envelope or a row being a JSON
\* object or the JSON array of its fields in order, gives ParsingError.
C9_SerdeShapeOrParsingError ==
    \A c \in Calls :
        (/\ Done(c) /\ response_str[c].some
         /\ WellFormed(response_str[c].v)
         /\ "error" \notin TopLevelKeys(response_str[c].v)
         /\ ~SerdeShape(from_str_Value(response_str[c].v).v))
        => ret[c] = [kind |-> "ParsingError"]

C9_Witness ==
    \E c \in Calls :
        /\ Done(c)
        /\ response_str[c] = Received(TextInnerError)
        /\ ret[c] = [kind |-> "ParsingError"]

\* C10: a call's steps are a prefix of serialize, send, text, parse, classify,
\* deserialize; a failed serialization returns ParsingError with no request
\* sent; a request is sent only after a successful serialization; the response
\* is classified only after the transport returned its text.
StepOrder == <<"serialize", "send", "text", "parse", "classify", "deserialize">>

C10_StepOrder ==
    \A c \in Calls :
        /\ Len(steps[c]) <= Len(StepOrder)
        /\ \A i \in 1..Len(steps[c]) : steps[c][i] = StepOrder[i]
        /\ (pc[c] # "idle" /\ ~request[c].ok)
            => /\ wire[c] = <<>>
               /\ Done(c) => (ret[c] = [kind |-> "ParsingError"] /\ steps[c] = <<"serialize">>)
        /\ wire[c] # <<>> => (Performed(c, "serialize") /\ request[c].ok)
        /\ Performed(c, "classify") => (Performed(c, "text") /\ response_str[c].some)

C10_Witness ==
    \E c \in Calls :
        /\ Done(c)
        /\ query[c] = Unserializable
        /\ ret[c] = [kind |-> "ParsingError"]
        /\ wire[c] = <<>>
====
